---- MODULE Spec2Model ----
(***************************************************************************)
(* A model of linkbio (src/linkbio.py): the LinkBioGenerator class and the *)
(* three click commands start, build and preview, run one after the other  *)
(* over one project directory that the user edits between the runs.        *)
(*                                                                         *)
(* The project directory is the state: linkbio.yaml, assets/, templates/   *)
(* and page/.  The opaque collaborators (the YAML decoder, the template    *)
(* engine, the file system, the HTTP client and the socket server) are     *)
(* modelled by their outcomes: a call either succeeds with the value the   *)
(* inputs determine or raises, and which one is a choice of the            *)
(* environment wherever the inputs do not decide it.                       *)
(***************************************************************************)
EXTENDS Naturals, Sequences, FiniteSets, TLC

VARIABLES
    yaml,         \* root/linkbio.yaml: [state, doc]
    assets,       \* root/assets/: [exists, files]
    templates,    \* the file names present in root/templates/
    page,         \* root/page/: [exists, out, assets]
    cwd,          \* the process working directory
    cmd,          \* the command the process runs: "none" | "build" | "preview" | "start"
    pc,           \* where the command is
    loaded,       \* how build's call of _load_config ended: [raised, says, value]
    original_cwd, \* preview's local `original_cwd`
    started_in,   \* the directory the process was started in
    console,      \* what click.echo printed in this run, in order
    trace,        \* the renders, writes, copies and downloads of this run, in order
    queue         \* start: the downloads still to do, in order

vars == <<yaml, assets, templates, page, cwd, cmd, pc, loaded,
          original_cwd, started_in, console, trace, queue>>

(***************************************************************************)
(* Bounds of the model                                                     *)
(***************************************************************************)
\* how many files the user keeps in an assets/ tree
MaxUserAssets == 1

(***************************************************************************)
(* Constants of the program                                                *)
(***************************************************************************)
\* ASSET_FILES: six entries, the last two literals being concatenated by the
\* missing comma after "sun.svg"
ASSET_FILES == <<"bg-desktop-light.jpg", "bg-desktop.jpg", "bg-mobile-light.jpg",
                 "bg-mobile.jpg", "moon-stars.svg", "sun.svgverified.svg">>

TEMPLATE_FILES == <<"index.html.jinja2", "script.js.jinja2", "style.css.jinja2">>

OUTPUT_DIR_NAME == "page"

\* the three output files build writes, in the order it writes them, each with
\* the template it is rendered from
OUTPUTS == << [file |-> "index.html", tpl |-> "index.html.jinja2"],
              [file |-> "style.css",  tpl |-> "style.css.jinja2"],
              [file |-> "script.js",  tpl |-> "script.js.jinja2"] >>

OutputFiles == {OUTPUTS[i].file : i \in DOMAIN OUTPUTS}

Range(s) == {s[i] : i \in DOMAIN s}

(***************************************************************************)
(* The configuration document                                              *)
(***************************************************************************)
\* A top-level key of a YAML mapping: YAML keys are strings or other scalars.
Key(t, n) == [t |-> t, n |-> n]

\* the key sets of the mappings the user may put in linkbio.yaml
KeySets == { {Key("str", "title")},
             {Key("str", "title"), Key("str", "nav")},
             {Key("str", "title"), Key("int", "1")} }

\* the top-level keys of the document start writes
ExampleKeys == {Key("str", n) : n \in {"username", "title", "avatar", "url",
                    "description", "name_author", "url_author", "fav_icon",
                    "nav", "social"}}

\* what yaml.safe_load can decode a well-formed document to
Doc(kind, keys) == [kind |-> kind, keys |-> keys]

NullDoc == Doc("null", {})

Docs == {NullDoc, Doc("seq", {}), Doc("scalar", {})}
            \cup {Doc("map", ks) : ks \in KeySets \cup {ExampleKeys}}

\* linkbio.yaml: absent, present but not openable (a directory of that name, no
\* read permission), present with text the decoder rejects, or decodable
YamlFile(state, doc) == [state |-> state, doc |-> doc]

NoYaml == YamlFile("absent", NullDoc)

UserYamls == {NoYaml, YamlFile("unreadable", NullDoc), YamlFile("malformed", NullDoc)}
                \cup {YamlFile("ok", d) : d \in Docs \ {Doc("map", ExampleKeys)}}

(***************************************************************************)
(* _load_config                                                            *)
(***************************************************************************)
Raised(exc, says) == [raised |-> exc, says |-> says, value |-> NullDoc]

Returned(v) == [raised |-> "none", says |-> "", value |-> v]

\* _load_config has not been called in this run
NotCalled == [raised |-> "not called", says |-> "", value |-> NullDoc]

IsNotNone(doc) == doc.kind # "null"

\* isinstance(config, dict)
IsDict(doc) == doc.kind = "map"

load_config_unchecked(y) ==
    IF y.state = "absent"
    THEN Raised("FileNotFoundError", "No such file or directory")
    ELSE IF y.state = "unreadable"
    THEN Raised("OSError", "open")
    ELSE IF y.state = "malformed"
    THEN Raised("YAMLError", "parse")
    ELSE IF ~IsDict(y.doc)
    THEN Raised("ValueError", "nao e um dicionario valido")
    ELSE Returned(y.doc)

load_config(y) ==
    IF y.state = "absent"
    THEN Raised("FileNotFoundError", "Execute 'linkbio start' primeiro")
    ELSE IF y.state = "unreadable"
    THEN Raised("OSError", "open")
    ELSE IF y.state = "malformed"
    THEN Raised("YAMLError", "parse")
    ELSE IF ~IsDict(y.doc)
    THEN Raised("ValueError", "nao e um dicionario valido")
    ELSE Returned(y.doc)

(***************************************************************************)
(* Rendering                                                               *)
(***************************************************************************)
\* A rendered text: which template it came from and the names it was given.
Text(tpl, names) == [tpl |-> tpl, vars |-> names]

NoFile == Text("", {})

(***************************************************************************)
(* Directory trees: a tree is the set of the paths of its files, a path    *)
(* the sequence of the names from the tree's root to the file.             *)
(***************************************************************************)
UserPaths == {<<"imagem.jpg">>, <<"novo.jpg">>, <<"subfolder", "icon.svg">>}

UserTrees == {t \in SUBSET UserPaths : Cardinality(t) <= MaxUserAssets}

Dir(exists, files) == [exists |-> exists, files |-> files]

NoDir == Dir(FALSE, {})

Tail1(p) == SubSeq(p, 2, Len(p))

\* shutil.copytree: every entry of the source directory is copied, a file as
\* it is and a subdirectory by a recursive copytree
RECURSIVE CopyTree(_)
CopyTree(tree) ==
    LET here == {p \in tree : Len(p) = 1}
        subs == {p[1] : p \in {q \in tree : Len(q) > 1}}
    IN  here \cup UNION { { <<d>> \o q : q \in CopyTree({Tail1(p) : p \in {r \in tree : Len(r) > 1 /\ r[1] = d}}) }
                          : d \in subs }

RmTreeSkipped(dir) == dir

\* shutil.rmtree of a directory that exists: nothing of it is left
RmTree(dir) == NoDir

(***************************************************************************)
(* What a run leaves behind to be looked at: the lines click.echo printed  *)
(* and the file operations done, both in order.  An event of trace is the  *)
(* operation, the file (or, for a copy and a fault, what the environment   *)
(* refused), the text rendered or written, and for a copy the page/assets  *)
(* directory as the copy found it.                                         *)
(***************************************************************************)
Event(op, file, text, tree) == [op |-> op, file |-> file, text |-> text, tree |-> tree]

Printed(line) == \E i \in DOMAIN console : console[i] = line

Count(seq, x) == Cardinality({i \in DOMAIN seq : seq[i] = x})

(***************************************************************************)
(* _copy_assets_to_output                                                  *)
(*                                                                         *)
(* fault: what the file system refuses in this call: "none", "rmtree"      *)
(* (shutil.rmtree raises, having removed all but `left`) or "copytree"     *)
(* (shutil.copytree raises: with made = FALSE before it made the           *)
(* destination, else having copied only `left`).                           *)
(***************************************************************************)
Fault(kind, made, left) == [kind |-> kind, made |-> made, left |-> left]

NoFault == Fault("none", TRUE, {})

\* the faults that can happen to a call given the two directories
CopyFaults(src, pg) ==
    {NoFault}
    \cup (IF src.exists /\ pg.assets.exists
          THEN {Fault("rmtree", TRUE, l) : l \in SUBSET pg.assets.files}
          ELSE {})
    \cup (IF src.exists
          THEN {Fault("copytree", FALSE, {})}
                 \cup {Fault("copytree", TRUE, l) : l \in (SUBSET src.files) \ {src.files}}
          ELSE {})

\* The result of a call: the page directory it leaves, the lines it printed,
\* how it ended and whether it raised to its caller.
CopyResult(pg, echo, result, raised) ==
    [page |-> pg, echo |-> echo, result |-> result, raised |-> raised]

CopySkippedClears(pg) == CopyResult([pg EXCEPT !.assets = NoDir], <<>>, "skipped", FALSE)

\* lines 190-192: no assets/ directory: a warning in the log, and return
CopySkipped(pg) == CopyResult(pg, <<>>, "skipped", FALSE)

CopyFailedRaises(pg) == CopyResult(pg, <<>>, "failed", TRUE)

\* lines 207-209: whatever the try block raised is logged and printed as a
\* warning, and the method returns
CopyFailed(pg) == CopyResult(pg, <<"aviso: falha ao copiar assets">>, "failed", FALSE)

copy_assets_to_output(src, pg, fault) ==
    IF ~src.exists
    THEN CopySkipped(pg)
    ELSE LET made == [pg EXCEPT !.exists = TRUE]
         IN  IF made.assets.exists /\ fault.kind = "rmtree"
             THEN CopyFailed([made EXCEPT !.assets = Dir(TRUE, fault.left)])
             ELSE LET cleared == IF made.assets.exists
                                 THEN [made EXCEPT !.assets = RmTree(made.assets)]
                                 ELSE made
                  IN  IF cleared.assets.exists
                      THEN \* copytree raises FileExistsError on a destination that is there
                           CopyFailed(cleared)
                      ELSE IF fault.kind = "copytree"
                      THEN CopyFailed([cleared EXCEPT !.assets =
                                         IF fault.made THEN Dir(TRUE, fault.left) ELSE NoDir])
                      ELSE CopyResult([cleared EXCEPT !.assets = Dir(TRUE, CopyTree(src.files))],
                                      <<>>, "copied", FALSE)

(***************************************************************************)
(* build, lines 229-236: the three lookups, then render and write, thrice  *)
(*                                                                         *)
(* fault: what goes wrong in this call beside what the inputs decide: at = *)
(* "lookup" (get_template raises on a template that is there, a syntax     *)
(* error), or at step 1..3 "render" (render raises), "open" (the output    *)
(* file cannot be opened, and stays as it was) or "write" (the write       *)
(* fails after the file was opened for writing, and leaves it empty).      *)
(***************************************************************************)
RenderFault(step, at) == [step |-> step, at |-> at]

NoRenderFault == RenderFault(0, "none")

RenderFaults == {NoRenderFault, RenderFault(0, "lookup")}
                   \cup {RenderFault(i, a) : i \in DOMAIN OUTPUTS, a \in {"render", "open", "write"}}

\* f(**config): the keys become keyword names, and a key that is not a string
\* raises TypeError before f is entered
KwargsOK(doc) == \A k \in doc.keys : k.t = "str"

Kwargs(doc) == {k.n : k \in doc.keys}

\* the data the i-th render of build is called with
RenderData(i, doc) == IF i = 1 THEN Kwargs(doc) ELSE {}

\* template.render(**data): the engine's text for a template and its data
Render(tpl, data) == Text(tpl, data)

\* env.get_template: FileSystemLoader finds the templates that are in templates/
TemplatesFound(tpls) == \A i \in DOMAIN OUTPUTS : OUTPUTS[i].tpl \in tpls

\* the faults that can happen to a call: none once a lookup has failed on a
\* missing template, and only a lookup fault before the TypeError of a
\* mapping whose keys cannot be keyword names
RenderFaultsOf(tpls, doc) ==
    IF ~TemplatesFound(tpls) THEN {NoRenderFault}
    ELSE IF ~KwargsOK(doc) THEN {NoRenderFault, RenderFault(0, "lookup")}
    ELSE RenderFaults

render_and_write_lazy(tpls, out, doc, fault) ==
    LET lookupFails == fault.at = "lookup"
        missing == {i \in DOMAIN OUTPUTS : OUTPUTS[i].tpl \notin tpls}
        f == IF ~KwargsOK(doc) THEN RenderFault(1, "render")
             ELSE IF missing # {}
             THEN RenderFault(CHOOSE i \in missing : \A j \in missing : i <= j, "render")
             ELSE fault
        Written(i) == ~lookupFails /\ (f.step = 0 \/ i < f.step)
        Rendered(i) == \/ Written(i)
                       \/ ~lookupFails /\ i = f.step /\ f.at \in {"open", "write"}
        Emptied(i) == ~lookupFails /\ i = f.step /\ f.at = "write"
        text(i) == Render(OUTPUTS[i].tpl, RenderData(i, doc))
        step(i) == (IF Rendered(i)
                    THEN <<Event("render", OUTPUTS[i].tpl, text(i), NoDir)>> ELSE <<>>)
                   \o (IF Written(i)
                       THEN <<Event("write", OUTPUTS[i].file, text(i), NoDir)>> ELSE <<>>)
    IN  [out |-> [file \in OutputFiles |->
                    LET i == CHOOSE j \in DOMAIN OUTPUTS : OUTPUTS[j].file = file
                    IN  IF Written(i) THEN text(i)
                        ELSE IF Emptied(i) THEN NoFile
                        ELSE out[file]],
         did |-> step(1) \o step(2) \o step(3),
         raised |-> lookupFails \/ f.step # 0]

render_and_write(tpls, out, doc, fault) ==
    LET lookupFails == ~TemplatesFound(tpls) \/ fault.at = "lookup"
        f == IF ~KwargsOK(doc) THEN RenderFault(1, "render") ELSE fault
        Written(i) == ~lookupFails /\ (f.step = 0 \/ i < f.step)
        Rendered(i) == \/ Written(i)
                       \/ ~lookupFails /\ i = f.step /\ f.at \in {"open", "write"}
        Emptied(i) == ~lookupFails /\ i = f.step /\ f.at = "write"
        text(i) == Render(OUTPUTS[i].tpl, RenderData(i, doc))
        step(i) == (IF Rendered(i)
                    THEN <<Event("render", OUTPUTS[i].tpl, text(i), NoDir)>> ELSE <<>>)
                   \o (IF Written(i)
                       THEN <<Event("write", OUTPUTS[i].file, text(i), NoDir)>> ELSE <<>>)
    IN  [out |-> [file \in OutputFiles |->
                    LET i == CHOOSE j \in DOMAIN OUTPUTS : OUTPUTS[j].file = file
                    IN  IF Written(i) THEN text(i)
                        ELSE IF Emptied(i) THEN NoFile
                        ELSE out[file]],
         did |-> step(1) \o step(2) \o step(3),
         raised |-> lookupFails \/ f.step # 0]

(***************************************************************************)
(* The project directory before any command has run on it                  *)
(***************************************************************************)
NoPage == [exists |-> FALSE, out |-> [f \in OutputFiles |-> NoFile], assets |-> NoDir]

UserDirs == {NoDir} \cup {Dir(TRUE, t) : t \in UserTrees}

TemplateSets == SUBSET Range(TEMPLATE_FILES)

\* the directories a command can be started from
StartDirs == {"root", "elsewhere"}

Idle ==
    /\ cmd = "none" /\ pc = "idle"

NoRun ==
    /\ cmd = "none" /\ pc = "idle"
    /\ loaded = NotCalled
    /\ cwd = "root" /\ original_cwd = "root" /\ started_in = "root"
    /\ console = <<>> /\ trace = <<>> /\ queue = <<>>

Init ==
    /\ yaml \in UserYamls
    /\ assets \in UserDirs
    /\ templates \in TemplateSets
    /\ page = NoPage
    /\ NoRun

(***************************************************************************)
(* The user, between two commands                                          *)
(***************************************************************************)
EditConfig ==
    /\ Idle
    /\ yaml' \in UserYamls \ {yaml}
    /\ UNCHANGED <<assets, templates, page, cwd, cmd, pc, loaded,
                   original_cwd, started_in, console, trace, queue>>

EditAssets ==
    /\ Idle
    /\ assets' \in UserDirs \ {assets}
    /\ UNCHANGED <<yaml, templates, page, cwd, cmd, pc, loaded,
                   original_cwd, started_in, console, trace, queue>>

EditTemplates ==
    /\ Idle
    /\ templates' \in TemplateSets \ {templates}
    /\ UNCHANGED <<yaml, assets, page, cwd, cmd, pc, loaded,
                   original_cwd, started_in, console, trace, queue>>

(***************************************************************************)
(* The commands build and preview                                          *)
(***************************************************************************)
\* the shell starts `linkbio build` in some directory
build ==
    /\ Idle
    /\ cmd' = "build" /\ pc' = "build"
    /\ \E d \in StartDirs : cwd' = d /\ started_in' = d
    /\ console' = <<>> /\ trace' = <<>>
    /\ UNCHANGED <<yaml, assets, templates, page, loaded, original_cwd, queue>>

\* the shell starts `linkbio preview`: lines 287-292 up to the call of build
preview ==
    /\ Idle
    /\ cmd' = "preview" /\ pc' = "build"
    /\ \E d \in StartDirs : cwd' = d /\ started_in' = d
    /\ console' = <<"executando build antes do preview">> /\ trace' = <<>>
    /\ UNCHANGED <<yaml, assets, templates, page, loaded, original_cwd, queue>>

\* LinkBioGenerator.build, lines 216-226: mkdir page, then _load_config under
\* except (FileNotFoundError, yaml.YAMLError, ValueError)
CaughtByBuild == {"FileNotFoundError", "YAMLError", "ValueError"}

BuildLoadConfig ==
    /\ pc = "build"
    /\ LET r == load_config(yaml)
       IN  /\ page' = [page EXCEPT !.exists = TRUE]
           /\ loaded' = r
           /\ IF r.raised = "none"
              THEN /\ pc' = "render"
                   /\ console' = console
              ELSE IF r.raised \in CaughtByBuild
              THEN /\ console' = Append(console, "falha no build")
                   /\ pc' = "built"
              ELSE /\ pc' = "raised"
                   /\ console' = console
    /\ UNCHANGED <<yaml, assets, templates, cwd, cmd, original_cwd, started_in,
                   trace, queue>>

\* LinkBioGenerator.build, lines 229-236 and, for what they raise, 245-247
BuildRender ==
    /\ pc = "render"
    /\ \E fault \in RenderFaultsOf(templates, loaded.value) :
         LET r == render_and_write(templates, page.out, loaded.value, fault)
         IN  /\ page' = [page EXCEPT !.out = r.out]
             /\ trace' = trace \o r.did
                            \o (IF fault = NoRenderFault THEN <<>>
                                ELSE <<Event("fault", fault.at, NoFile, NoDir)>>)
             /\ IF r.raised
                THEN /\ console' = Append(console, "erro durante o build")
                     /\ pc' = "built"
                ELSE /\ console' = console
                     /\ pc' = "copy"
    /\ UNCHANGED <<yaml, assets, templates, cwd, cmd, loaded, original_cwd,
                   started_in, queue>>

\* LinkBioGenerator.build, lines 238-243: the copy, then the two closing lines
BuildCopyAssets ==
    /\ pc = "copy"
    /\ \E fault \in CopyFaults(assets, page) :
         LET r == copy_assets_to_output(assets, page, fault)
         IN  /\ page' = r.page
             /\ trace' = Append(trace, Event(r.result, fault.kind, NoFile, page.assets))
             /\ console' = console \o r.echo
                              \o (IF r.raised THEN <<"erro durante o build">>
                                  ELSE <<"build concluido", "use linkbio preview">>)
             /\ pc' = "built"
    /\ UNCHANGED <<yaml, assets, templates, cwd, cmd, loaded, original_cwd,
                   started_in, queue>>

\* the command build, line 278: build has returned and the process ends
BuildReturn ==
    /\ pc = "built" /\ cmd = "build"
    /\ pc' = "done"
    /\ UNCHANGED <<yaml, assets, templates, page, cwd, cmd, loaded, original_cwd,
                   started_in, console, trace, queue>>

restore_cwd_skipped(original, current) == current

\* preview's finally clause, lines 319-320: os.chdir(original_cwd)
restore_cwd(original, current) == original

\* what can go wrong between build's return and serve_forever
ServeFaults == {"none", "chdir", "bind"}

\* preview, lines 295-311 and, for what they raise, 316-320: build has
\* returned; the directory check, the chdir and the bind
PreviewServe ==
    /\ pc = "built" /\ cmd = "preview"
    /\ IF ~page.exists
       THEN /\ console' = Append(console, "diretorio de build nao encontrado")
            /\ pc' = "done"
            /\ UNCHANGED <<cwd, original_cwd, trace>>
       ELSE /\ original_cwd' = cwd
            /\ \E fault \in ServeFaults :
                 /\ trace' = IF fault = "chdir" THEN trace
                             ELSE Append(trace, Event("chdir", OUTPUT_DIR_NAME, NoFile, NoDir))
                 /\ IF fault = "none"
                    THEN /\ cwd' = OUTPUT_DIR_NAME
                         /\ console' = console \o <<"servidor de preview rodando", "pressione ctrl+c">>
                         /\ pc' = "serving"
                    ELSE /\ console' = Append(console, "erro ao iniciar o servidor")
                         /\ cwd' = restore_cwd(original_cwd', IF fault = "bind" THEN OUTPUT_DIR_NAME ELSE cwd)
                         /\ pc' = "done"
    /\ UNCHANGED <<yaml, assets, templates, page, cmd, loaded, started_in, queue>>

\* preview, lines 313-315 and 319-320: Ctrl+C while serve_forever runs
Interrupt ==
    /\ pc = "serving"
    /\ console' = Append(console, "servidor interrompido")
    /\ cwd' = restore_cwd(original_cwd, cwd)
    /\ pc' = "done"
    /\ UNCHANGED <<yaml, assets, templates, page, cmd, loaded, original_cwd,
                   started_in, trace, queue>>

\* preview, lines 316-320: serve_forever raises an Exception
ServeError ==
    /\ pc = "serving"
    /\ console' = Append(console, "erro ao iniciar o servidor")
    /\ cwd' = restore_cwd(original_cwd, cwd)
    /\ pc' = "done"
    /\ UNCHANGED <<yaml, assets, templates, page, cmd, loaded, original_cwd,
                   started_in, trace, queue>>

\* the process ends, normally or by the exception that left the command
Exit ==
    /\ pc \in {"done", "raised"}
    /\ cmd' = "none" /\ pc' = "idle"
    /\ loaded' = NotCalled
    /\ cwd' = "root" /\ original_cwd' = "root" /\ started_in' = "root"
    /\ console' = <<>> /\ trace' = <<>>
    /\ UNCHANGED <<yaml, assets, templates, page, queue>>

Next ==
    \/ EditConfig \/ EditAssets \/ EditTemplates
    \/ build \/ preview
    \/ BuildLoadConfig \/ BuildRender \/ BuildCopyAssets \/ BuildReturn
    \/ PreviewServe \/ Interrupt \/ ServeError
    \/ Exit

Spec == Init /\ [][Next]_vars

(***************************************************************************)
(* The command start                                                       *)
(***************************************************************************)
\* one download: the directory (of the URL and of the destination) and the name
Download(dir, name) == [dir |-> dir, name |-> name]

\* the two loops of LinkBioGenerator.start, lines 165-176, as one list
Downloads == [i \in DOMAIN ASSET_FILES |-> Download("assets", ASSET_FILES[i])]
                \o [i \in DOMAIN TEMPLATE_FILES |-> Download("templates", TEMPLATE_FILES[i])]

\* How a download can end: "ok"; "status" (raise_for_status on a non-success
\* status); "transport" (requests.get raises); "stream" (the transport fails
\* while the body is read, the destination being open already); "io" (the
\* destination cannot be opened).
DownloadOutcomes == {"ok", "status", "transport", "stream", "io"}

download_file_swallows(outcome) ==
    [raised |-> FALSE, created |-> outcome \in {"ok", "stream"}]

\* _download_file: whether it raises, and whether the destination file is
\* there afterwards although it was not before
download_file(outcome) ==
    [raised |-> outcome # "ok", created |-> outcome \in {"ok", "stream"}]

\* the shell starts `linkbio start`
start ==
    /\ Idle
    /\ cmd' = "start" /\ pc' = "start"
    /\ \E d \in StartDirs : cwd' = d /\ started_in' = d
    /\ console' = <<>> /\ trace' = <<>>
    /\ UNCHANGED <<yaml, assets, templates, page, loaded, original_cwd, queue>>

\* what can go wrong while the YAML file is written: nothing, the file cannot
\* be opened, or the write fails and leaves it empty
WriteFaults == {"none", "open", "write"}

\* LinkBioGenerator.start, lines 125-164, under the except of the command
\* (lines 264-268): the two mkdir, the YAML file, the first heading
StartSetup ==
    /\ pc = "start"
    /\ assets' = [assets EXCEPT !.exists = TRUE]
    /\ \E fault \in WriteFaults :
         /\ yaml' = IF fault = "none" THEN YamlFile("ok", Doc("map", ExampleKeys))
                    ELSE IF fault = "write" THEN YamlFile("ok", NullDoc)
                    ELSE yaml
         /\ IF fault = "none"
            THEN /\ console' = console \o <<"diretorios criados", "baixando assets">>
                 /\ queue' = Downloads
                 /\ pc' = "download"
            ELSE /\ console' = console \o <<"diretorios criados", "falha grave no start">>
                 /\ queue' = queue
                 /\ pc' = "done"
    /\ UNCHANGED <<templates, page, cwd, cmd, loaded, original_cwd, started_in, trace>>

\* one turn of the loops of lines 165-176: the next file is requested and,
\* unless _download_file raises, written; what it raises leaves both loops
\* and start, and is caught at lines 266-268
StartDownload ==
    /\ pc = "download" /\ queue # <<>>
    /\ \E outcome \in DownloadOutcomes :
         LET d == Head(queue)
             r == download_file(outcome)
         IN  /\ trace' = Append(trace, Event(IF outcome = "ok" THEN "fetched" ELSE "fetch-failed",
                                              d.name, NoFile, NoDir))
             /\ assets' = IF d.dir = "assets" /\ r.created
                          THEN [assets EXCEPT !.files = @ \cup {<<d.name>>}] ELSE assets
             /\ templates' = IF d.dir = "templates" /\ r.created
                             THEN templates \cup {d.name} ELSE templates
             /\ IF r.raised
                THEN /\ console' = Append(console, "falha grave no start")
                     /\ queue' = queue
                     /\ pc' = "done"
                ELSE /\ queue' = Tail(queue)
                     /\ console' = IF Len(queue) = Len(TEMPLATE_FILES) + 1
                                   THEN Append(console, "baixando templates") ELSE console
                     /\ pc' = "download"
    /\ UNCHANGED <<yaml, page, cwd, cmd, loaded, original_cwd, started_in>>

\* LinkBioGenerator.start, lines 178-180: both loops are through
StartFinish ==
    /\ pc = "download" /\ queue = <<>>
    /\ console' = console \o <<"start concluido", "edite linkbio.yaml">>
    /\ pc' = "done"
    /\ UNCHANGED <<yaml, assets, templates, page, cwd, cmd, loaded, original_cwd,
                   started_in, trace, queue>>

StartExit ==
    /\ pc = "done"
    /\ cmd' = "none" /\ pc' = "idle"
    /\ cwd' = "root" /\ started_in' = "root"
    /\ console' = <<>> /\ trace' = <<>> /\ queue' = <<>>
    /\ UNCHANGED <<yaml, assets, templates, page, loaded, original_cwd>>

InitStart ==
    /\ yaml \in {NoYaml, YamlFile("ok", Doc("map", {Key("str", "title")}))}
    /\ assets \in UserDirs
    /\ templates \in TemplateSets
    /\ page = NoPage
    /\ NoRun

NextStart == start \/ StartSetup \/ StartDownload \/ StartFinish \/ StartExit

SpecStart == InitStart /\ [][NextStart]_vars

(***************************************************************************)
(* Properties                                                              *)
(***************************************************************************)
\* build has printed one of its two failure lines in this run
BuildReportedFailure == Printed("falha no build") \/ Printed("erro durante o build")

LastEvent == trace[Len(trace)]

WriteEvents == {i \in DOMAIN trace : trace[i].op = "write"}

\* every file this run wrote still holds what was written to it
WrittenFilesInPlace == \A i \in WriteEvents : page.out[trace[i].file] = trace[i].text

\* C1: in a preview run whose build step failed (the config missing,
\* unparsable or no mapping, a template missing, a render or write error),
\* the HTTP server is never bound: preview does not get to serve.
C1_FailedBuildNeverServes ==
    (cmd = "preview" /\ BuildReportedFailure) => pc # "serving"

\* C2: when a preview run is over, by Ctrl+C while serving, by a failure to
\* bind the port or by any other exception, the working directory is the one
\* the run was started in.
C2_CwdRestored ==
    (cmd = "preview" /\ pc \in {"done", "raised"}) => cwd = started_in

\* a preview run started outside page/ that changed into page/, served, was
\* interrupted and is back where it started
C2_Witness ==
    /\ cmd = "preview" /\ pc = "done"
    /\ \E i \in DOMAIN trace : trace[i].op = "chdir"
    /\ Printed("servidor interrompido")
    /\ started_in = "elsewhere" /\ cwd = "elsewhere"

\* C3: a call of _copy_assets_to_output that the file system lets through
\* leaves page/assets holding exactly the files of assets/, nested ones
\* included, whatever page/assets held before (the copy of an earlier run
\* with another assets/): no file of the earlier copy remains.
C3_CopyReplacesOldAssets ==
    (pc = "built" /\ trace # <<>> /\ LastEvent.op \in {"copied", "failed"}
        /\ LastEvent.file = "none")
    => (LastEvent.op = "copied" /\ page.assets = Dir(TRUE, assets.files))

\* the second of two copies: page/assets held a file that assets/ no longer
\* has, assets/ has a file in a subdirectory, and page/assets is now assets/
C3_Witness ==
    /\ pc = "built" /\ trace # <<>> /\ LastEvent.op = "copied"
    /\ LastEvent.tree.exists
    /\ \E p \in LastEvent.tree.files : p \notin assets.files
    /\ \E p \in assets.files : Len(p) > 1
    /\ page.assets.files = assets.files

\* C4: with no assets/ directory, _copy_assets_to_output returns without
\* raising and without a warning on the console, and page/assets is as it
\* was: not removed, not changed, not created.
C4_NoSourceLeavesOutputAssets ==
    (pc = "built" /\ trace # <<>> /\ LastEvent.op \in {"skipped", "copied", "failed"}
        /\ ~assets.exists)
    => /\ LastEvent.op = "skipped"
       /\ page.assets = LastEvent.tree
       /\ ~Printed("aviso: falha ao copiar assets")
       /\ Printed("build concluido")

\* a build without assets/ over a page/ that holds the copy of an earlier
\* build: the old copy is still there
C4_Witness ==
    /\ pc = "built" /\ trace # <<>> /\ LastEvent.op = "skipped"
    /\ ~assets.exists
    /\ LastEvent.tree.exists /\ LastEvent.tree.files # {}
    /\ page.assets = LastEvent.tree

\* C5 as claimed: when removing the old page/assets or copying assets/ fails
\* during build, build does not print its success summary, and the three
\* files written earlier in that build remain.
C5_CopyFailureFailsBuild ==
    (pc = "built" /\ trace # <<>> /\ LastEvent.op = "failed")
    => (~Printed("build concluido") /\ WrittenFilesInPlace)

\* C5 as amended: when removing the old page/assets or copying assets/ fails
\* during build, the failure is printed as a warning only: build prints no
\* failure line and still prints its success summary, and index.html,
\* style.css and script.js, all written earlier in that build, remain.
C5_CopyFailureIsWarning ==
    (pc = "built" /\ trace # <<>> /\ LastEvent.op = "failed")
    => /\ Printed("aviso: falha ao copiar assets")
       /\ ~BuildReportedFailure
       /\ Printed("build concluido")
       /\ {trace[i].file : i \in WriteEvents} = OutputFiles
       /\ WrittenFilesInPlace

\* a build whose rmtree of the old page/assets failed, after the three files
\* were written
C5_Witness ==
    /\ pc = "built" /\ trace # <<>> /\ LastEvent.op = "failed"
    /\ LastEvent.file = "rmtree"
    /\ \A f \in OutputFiles : page.out[f] # NoFile
    /\ Printed("build concluido")

\* C7: a failure of config loading, of a template lookup, of a render or of
\* an output write during build never leaves build as an exception; build
\* prints exactly one failure line and no success line, and every file
\* written before the failure holds what was written.
C7_BuildFailuresCaught ==
    /\ pc # "raised"
    /\ (pc = "built" /\ BuildReportedFailure)
         => /\ Count(console, "falha no build") + Count(console, "erro durante o build") = 1
            /\ ~Printed("build concluido")
            /\ WrittenFilesInPlace

\* the environment refused nothing during the renders and writes of this run
NoRenderFaultSeen == \A i \in DOMAIN trace : trace[i].op # "fault"

\* C8: for every config that loaded as a mapping, with the three templates
\* present, build renders exactly three times, markup, stylesheet, script in
\* this order, the first with every top-level key as a variable and the
\* others with no data; each output file holds its own render; and the copy
\* of assets/ comes after the three writes.
C8_BuildRendersThree ==
    (pc = "built" /\ loaded.raised = "none" /\ TemplatesFound(templates)
        /\ NoRenderFaultSeen)
    => /\ Len(trace) = 7
       /\ \A i \in 1..3 :
            /\ trace[2 * i - 1].op = "render"
            /\ trace[2 * i - 1].file = OUTPUTS[i].tpl
            /\ trace[2 * i - 1].text.vars =
                   (IF i = 1 THEN {k.n : k \in loaded.value.keys} ELSE {})
            /\ trace[2 * i].op = "write"
            /\ trace[2 * i].file = OUTPUTS[i].file
            /\ trace[2 * i].text = trace[2 * i - 1].text
            /\ page.out[OUTPUTS[i].file] = trace[2 * i - 1].text
       /\ trace[7].op \in {"copied", "skipped", "failed"}

\* C9: _load_config on a document that decodes to something that is no
\* mapping (null, a sequence, a scalar) raises ValueError, and it returns a
\* value only for a mapping, the mapping itself.
C9_NonMappingIsValueError ==
    loaded # NotCalled
    => /\ (yaml.state = "ok" /\ yaml.doc.kind # "map") => loaded.raised = "ValueError"
       /\ loaded.raised = "none"
            => (yaml.state = "ok" /\ yaml.doc.kind = "map" /\ loaded.value = yaml.doc)

\* _load_config has refused a document that is a sequence
C9_Witness ==
    /\ loaded.raised = "ValueError"
    /\ yaml.state = "ok" /\ yaml.doc.kind = "seq"

\* C10: with no linkbio.yaml in the root directory _load_config raises
\* FileNotFoundError, no other error and no value, and the message tells to
\* run start first.
C10_MissingFileIsNotFound ==
    (loaded # NotCalled /\ yaml.state = "absent")
    => /\ loaded.raised = "FileNotFoundError"
       /\ loaded.says = "Execute 'linkbio start' primeiro"

\* _load_config has been called without a linkbio.yaml and has raised
C10_Witness ==
    /\ yaml.state = "absent"
    /\ loaded.raised = "FileNotFoundError"
    /\ pc = "built"

\* the requests of this run that failed
FailedFetches == {i \in DOMAIN trace : trace[i].op = "fetch-failed"}

\* C6: in start, the first download that fails (a non-success status, a
\* transport error) ends the provisioning at once: it is the last request of
\* the run, the requests made are the head of the download list, each made
\* once, linkbio.yaml and the files downloaded before it are in place, and
\* the run prints the failure line and not the completion line.
C6_FirstFailedDownloadAborts ==
    (cmd = "start" /\ FailedFetches # {})
    => /\ pc = "done"
       /\ FailedFetches = {Len(trace)}
       /\ Len(trace) <= Len(Downloads)
       /\ \A i \in DOMAIN trace : trace[i].file = Downloads[i].name
       /\ yaml = YamlFile("ok", Doc("map", ExampleKeys))
       /\ \A i \in 1..(Len(trace) - 1) :
            IF Downloads[i].dir = "assets"
            THEN <<Downloads[i].name>> \in assets.files
            ELSE Downloads[i].name \in templates
       /\ Printed("falha grave no start")
       /\ ~Printed("start concluido")

\* a start whose download of the second template failed on its HTTP status:
\* the assets and the first template are there, the third template was
\* never requested
C6_Witness ==
    /\ cmd = "start" /\ pc = "done"
    /\ Len(trace) = Len(ASSET_FILES) + 2
    /\ LastEvent.op = "fetch-failed"
    /\ Len(queue) = 2
    /\ \A i \in DOMAIN ASSET_FILES : <<ASSET_FILES[i]>> \in assets.files
    /\ TEMPLATE_FILES[1] \in templates
    /\ Printed("falha grave no start")

\* C11: in a build or preview run with one of the three templates missing
\* from templates/, no step changes index.html, style.css or script.js, nor
\* page/assets: the three lookups come before the first write, and the
\* output keeps what earlier builds left in it.
C11_MissingTemplateWritesNothing ==
    [][(cmd \in {"build", "preview"} /\ ~(\A i \in DOMAIN OUTPUTS : OUTPUTS[i].tpl \in templates))
         => (page'.out = page.out /\ page'.assets = page.assets)]_vars

\* a build whose config loaded and whose lookups failed on the one missing
\* template, over a page/ that holds the output and the assets of an
\* earlier build of another config: all of it is still there
C11_Witness ==
    /\ cmd = "build" /\ pc = "built"
    /\ Cardinality(templates) = 2 /\ "index.html.jinja2" \in templates
    /\ loaded.raised = "none"
    /\ \A k \in loaded.value.keys : k.t = "str"
    /\ Printed("erro durante o build")
    /\ trace = <<>>
    /\ \A f \in OutputFiles : page.out[f] # NoFile
    /\ page.out["index.html"].vars # {k.n : k \in loaded.value.keys}
    /\ page.assets.exists /\ page.assets.files # {}

====
